---- MODULE Spec2Model ----
(***************************************************************************)
(* Model of voice_log_app's credential lifecycle manager                   *)
(* (src/token_manager.py, class FeishuTokenManager).                       *)
(*                                                                         *)
(* Timing model.  Time is counted in seconds.  Computation and a single    *)
(* HTTP exchange take no time; time passes only in the retry sleeps of     *)
(* _fetch_token (time.sleep) and while no thread can run (Tick).  A        *)
(* threading.Timer fires when its delay has elapsed; its callback then     *)
(* competes for the manager's lock like any other thread.                  *)
(*                                                                         *)
(* Threads.  Each caller of get_token() is a thread; every threading.Timer *)
(* is a thread of its own.  self._lock is a threading.Lock: it is not      *)
(* reentrant, so a thread that asks for it while holding it blocks for     *)
(* ever ("stuck").                                                         *)
(*                                                                         *)
(* Environment.  The authority answers each request with code 0 and a      *)
(* lifetime of Lifetimes, with another code, or the request fails; it      *)
(* answers at most MaxRequests requests.  Every credential it issues       *)
(* carries a token, other than the one cached.                             *)
(*                                                                         *)
(* The second part models the voice-log request: create_voice_log          *)
(* (src/backend/main.py) calling transcribe_audio                          *)
(* (src/backup_before_refactor/utils.py): upload, submission, the polling  *)
(* loop, download and parsing of the result.  A Python str is a sequence   *)
(* of symbols: one-character strings, and the fixed texts of the source,   *)
(* each standing as one symbol under an ASCII name.  The remote services   *)
(* answer with JSON objects whose "Data" and "Result", when present, are   *)
(* objects, and whose other fields, when present, are strings.             *)
(***************************************************************************)
EXTENDS Integers, Sequences, FiniteSets, TLC

\* ---------------------------------------------------------------- bounds
NumCallers == 2
MaxRequests == 4
MaxTime == 900
MaxClock == 2
MaxPuts == 3
MaxParas == 2
MaxWords == 2
MaxPages == 3

\* ------------------------------------------------------ program constants
refresh_margin == 300
max_retries == 3
retry_delay == 1
RetryInterval == 300
poll_max_retries == 30
retry_interval == 10
session_hours == 24

\* Lifetimes ("expire") the authority may answer with, in seconds.
Lifetimes == {300, 600}

NoToken == 0
NoTime == -1
NoTimer == 0
FreeLock == <<"free", 0>>

\* get_token() returned None: after request errors, after a code other than
\* 0, after another exception.  (Python returns the same None in all three;
\* the value records which return statement was taken.)
NoneRequest == -1
NoneCode == -2
NoneOther == -3
NoneKinds == {NoneRequest, NoneCode, NoneOther}

Callers == 1..NumCallers
TimerIds == 1..MaxRequests
CallerThread(c) == <<"caller", c>>
TimerThread(k) == <<"timer", k>>
ReaderThread == <<"reader", 0>>

\* The methods that only read the cached credential.
ReadMethods == {"is_token_valid", "get_token_info"}

VARIABLES
    now,            \* datetime.now(), in seconds
    token,          \* self._token
    expire_time,    \* self._expire_time
    lock,           \* holder of self._lock
    refresh_timer,  \* the Timer self._refresh_timer.cancel() would stop
    tst,            \* state of each Timer thread
    tdl,            \* instant at which each Timer fires
    tatt,           \* _fetch_token's loop variable in each Timer thread
    cpc,            \* position of each get_token() caller
    catt,           \* _fetch_token's loop variable in each caller
    cret,           \* what the caller's last get_token() returned
    cmiss,          \* the waiting caller's call started on a cache miss
    cqueued,        \* ... and has waited behind another caller's fetch
    reqCount,       \* requests sent to the authority so far
    stopped,        \* stop() has returned
    postStopCall,   \* some get_token() call started after stop()
    rpc,            \* the reading thread: "idle", or the method it is inside
    rtok,           \* self._token as that method read it
    tpc,            \* position of the voice-log request
    poll_i,         \* transcribe_audio's loop variable i
    result,         \* what get_task_result returned last
    artifact,       \* what the download of the result file gave
    text,           \* what transcribe_audio returned
    outcome,        \* the return statement it returned from
    slept,          \* seconds spent in time.sleep(retry_interval)
    uploads,        \* calls of upload_file_to_oss
    submissions,    \* job submissions sent
    queries,        \* status queries sent
    nonterm,        \* status queries answered with a non-terminal status
    downloads,      \* downloads of the result file
    summarised,     \* the text create_voice_log passed to get_summary
    logged,         \* the text create_voice_log wrote into the log file
    response,       \* the HTTP status create_voice_log answered with
    cancelled,      \* the caller has given the request up
    oss_clock,      \* datetime.now() in upload_file_to_oss, in seconds
    bucket,         \* names of the objects in the OSS bucket
    puts,           \* bucket.put_object calls made for each local file
    file_url,       \* what upload_file_to_oss returned last
    log_dir,        \* the files in LOG_DIR
    index,          \* main.py's global index
    documents,      \* main.py's global documents
    qresp,          \* the HTTP status /api/query answered with last
    sclock,         \* datetime.now() in main.py, in ticks of half a second
    user_sessions,  \* main.py's user_sessions: session id -> UserSession
    sresp,          \* the last answer of a session endpoint
    logged_out,     \* the session ids /api/logout has answered 200 for
    feishu_client,  \* feishu_api's _feishu_client: access_token, auto_token_refresh
    spc,            \* position of search_records
    page_count,     \* search_records' page_count
    page_token,     \* search_records' page_token
    all_records,    \* search_records' all_records
    max_pages,      \* search_records' argument max_pages
    last_code,      \* response.code of the last answer to search_records
    opt_arg,        \* the token passed to _build_request_option last
    mgr_result,     \* what get_current_token() did in that call
    option          \* the RequestOption that call built

readerVars == <<rpc, rtok>>
ossVars == <<oss_clock, bucket, puts, file_url>>
logVars == <<log_dir, index, documents, qresp>>
sessionVars == <<sclock, user_sessions, sresp, logged_out>>
searchVars == <<spc, page_count, page_token, all_records, max_pages, last_code>>
optionVars == <<opt_arg, mgr_result, option>>
tableVars == <<feishu_client, searchVars, optionVars>>
appVars == <<logVars, sessionVars, tableVars>>
pollVars == <<tpc, poll_i, result, artifact, text, outcome, slept, uploads,
              submissions, queries, nonterm, downloads, summarised, logged,
              response, cancelled, ossVars, appVars>>
otherVars == <<readerVars, pollVars>>
managerVars == <<now, token, expire_time, lock, refresh_timer, tst, tdl, tatt,
                 cpc, catt, cret, cmiss, cqueued, reqCount, stopped,
                 postStopCall>>

vars == <<managerVars, otherVars>>

timerVars == <<refresh_timer, tst, tdl, tatt>>
callerVars == <<cpc, catt, cret, cmiss, cqueued>>
credVars == <<token, expire_time>>

\* ---------------------------------------------------------------- helpers

\* Mutant: the test forgets the expiry.
NeedsFetch_TokenOnly(tok, exp, t) == tok = NoToken

\* Mutant: the margin is subtracted twice.
NeedsFetch_MarginTwice(tok, exp, t) ==
    \/ tok = NoToken
    \/ exp = NoTime
    \/ t + refresh_margin >= exp - refresh_margin

\* get_token's test "a new token must be fetched".
NeedsFetch(tok, exp, t) ==
    \/ tok = NoToken
    \/ exp = NoTime
    \/ t >= exp - refresh_margin

\* Mutant: the renewal is scheduled for the expiry itself.
RefreshDelay_NoMargin(exp, t) == exp - t

\* _schedule_refresh: seconds from t to the renewal of a credential expiring at exp.
RefreshDelay(exp, t) == (exp - refresh_margin) - t

\* Mutant: the same sleep after every failed attempt.
RetrySleep_Flat(attempt) == retry_delay

\* _fetch_token: the sleep after failed attempt number `attempt` (from 0).
RetrySleep(attempt) == retry_delay * (attempt + 1)

\* _fetch_token: whether another attempt follows a request error.
RetryAgain(attempt) == attempt < max_retries - 1

\* _fetch_token: expire_time of a credential answered at t with lifetime life.
ExpireAt(t, life) == t + life

\* The token of the credential the authority issues while tok is cached.
NewToken(tok) == IF tok = 1 THEN 2 ELSE 1

Pending(k) == tst[k] = "pending"
PendingTimers == {k \in TimerIds : Pending(k)}
FreeTimers == {k \in TimerIds : tst[k] = "none"}
SetMin(S) == CHOOSE x \in S : \A y \in S : x <= y

\* ------------------------------------------------------------ Python values

\* An Optional[str]: None, or a str (a sequence of symbols).
PyNone == [isNone |-> TRUE, str |-> <<>>]
PyStr(s) == [isNone |-> FALSE, str |-> s]

\* Python's truth value of an Optional[str]: "if text", "if not text".
Truthy(v) == ~v.isNone /\ v.str # <<>>

\* A key of a JSON object: absent, or present with a string.
Absent == [present |-> FALSE, value |-> <<>>]
Field(s) == [present |-> TRUE, value |-> s]

\* dict.get(key, default)
Get(field, default) == IF field.present THEN field.value ELSE default

\* The fixed texts transcribe_audio and download_and_parse_transcription
\* return or insert (utils.py lines 394, 392, 398, 413, 388, 335).
TaskFailedText == <<"TaskFailed">>
UnknownErrorText == <<"UnknownError">>
InvalidText == <<"TaskInvalid">>
TimeoutText == <<"TaskTimeout">>
ResultMissingText == <<"NoResultUrl">>
ParseFailedText == <<"ParseFailed">>

\* ------------------------------------------------- answers of the services

\* result.get('Data', {}).get('TaskStatus') when the key is absent.
NoStatus == "None"

\* The statuses the transcription service reports, and others.
Statuses == {"COMPLETED", "FAILED", "INVALID", "ONGOING", "PENDING", "Completed",
             NoStatus}

\* Values of Data.ErrorCode, Data.ErrorMessage and Data.Result.Transcription.
ErrorCodes == {Absent, Field(<<>>), Field(<<"X">>), Field(<<"E", "]", " ">>)}
ErrorMessages == {Absent, Field(<<>>), Field(<<"Y">>), Field(<<"n", "o">>)}
ResultUrls == {Absent, Field(<<>>), Field(<<"u">>)}

\* get_task_result returned None (the request or its parsing raised, or the
\* access keys are not set), or an empty object: "if result" is false.
QueryNone ==
    [truthy |-> FALSE, TaskStatus |-> NoStatus, Transcription |-> Absent,
     ErrorCode |-> Absent, ErrorMessage |-> Absent]

\* get_task_result returned the service's answer.
StatusResponse(st, url, code, msg) ==
    [truthy |-> TRUE, TaskStatus |-> st, Transcription |-> url,
     ErrorCode |-> code, ErrorMessage |-> msg]

Responses ==
    {QueryNone}
    \cup {StatusResponse("COMPLETED", u, Absent, Absent) : u \in ResultUrls}
    \cup {StatusResponse("FAILED", Absent, x, y) :
             x \in ErrorCodes, y \in ErrorMessages}
    \cup {StatusResponse(st, Absent, Absent, Absent) :
             st \in Statuses \ {"COMPLETED", "FAILED"}}

\* What requests.get(transcription_url) and response.json() give: an
\* exception, or the result file's paragraphs, each the list of its words'
\* "Text" ('' for a word without one).
ArtifactError == [ok |-> FALSE, Paragraphs |-> <<>>]
Artifact(paras) == [ok |-> TRUE, Paragraphs |-> paras]

Artifacts ==
    {ArtifactError,
     Artifact(<<>>),
     Artifact(<< << <<"H", "i">> >> >>),
     Artifact(<< << <<"a">>, <<"b">> >>, << <<" ">>, <<"c">> >> >>),
     Artifact(<< << <<" ">>, <<>> >>, <<>>, << <<"d", " ">>, <<"\n">> >> >>)}

\* The local files given to upload_file_to_oss (os.path.basename).
Files == {"a.wav", "b.wav"}

\* The seconds at which log files are written: the timestamp of their names.
LogStamps == {1, 2}

\* log_filename = f"log_{timestamp}.md"
LogFile(stamp) == <<stamp, "md">>

\* An answer of a session endpoint.
Answer(endpoint, status) == [endpoint |-> endpoint, status |-> status]

\* _feishu_client = None
NoClient == [built |-> FALSE, access_token |-> PyNone,
             auto_token_refresh |-> FALSE]

\* max_pages: Optional[int] = None
NoMaxPages == -1

\* What get_current_token() did: it was not called, it returned a token, it
\* returned None, or it raised.
NotCalled == [kind |-> "not_called", token |-> <<>>]
ManagerToken(tok) == [kind |-> "token", token |-> tok]
ManagerNone == [kind |-> "none", token |-> <<>>]
ManagerRaises == [kind |-> "raises", token |-> <<>>]

\* A RequestOption: none built yet, built without a token, or with a
\* tenant_access_token or a user_access_token.
NoOption == [kind |-> "unbuilt", token |-> <<>>]
Option(kind, tok) == [kind |-> kind, token |-> tok]

\* What load_and_index_logs returns as index.
NoIndex == "None"

\* load_and_index_logs: (None, the logs read from the .json files of
\* LOG_DIR).  The order the list is sorted in is left out.
LoadAndIndexLogs(dir) == <<NoIndex, {f \in dir : f[2] = "json"}>>

\* upload_file_to_oss returned None.
NoUrl == <<>>

Init ==
    /\ now = 0
    /\ token = NoToken
    /\ expire_time = NoTime
    /\ lock = FreeLock
    /\ refresh_timer = NoTimer
    /\ tst = [k \in TimerIds |-> "none"]
    /\ tdl = [k \in TimerIds |-> 0]
    /\ tatt = [k \in TimerIds |-> 0]
    /\ cpc = [c \in Callers |-> "idle"]
    /\ catt = [c \in Callers |-> 0]
    /\ cret = [c \in Callers |-> NoToken]
    /\ cmiss = [c \in Callers |-> FALSE]
    /\ cqueued = [c \in Callers |-> FALSE]
    /\ reqCount = 0
    /\ stopped = FALSE
    /\ postStopCall = FALSE
    /\ rpc = "idle"
    /\ rtok = NoToken
    /\ tpc = "idle"
    /\ poll_i = 0
    /\ result = QueryNone
    /\ artifact = ArtifactError
    /\ text = PyNone
    /\ outcome = "none"
    /\ slept = 0
    /\ uploads = 0
    /\ submissions = 0
    /\ queries = 0
    /\ nonterm = 0
    /\ downloads = 0
    /\ summarised = PyNone
    /\ logged = PyNone
    /\ response = 0
    /\ cancelled = FALSE
    /\ oss_clock = 0
    /\ bucket = {}
    /\ puts = [f \in Files |-> 0]
    /\ file_url = NoUrl
    /\ log_dir = {}
    /\ index = LoadAndIndexLogs({})[1]
    /\ documents = LoadAndIndexLogs({})[2]
    /\ qresp = 0
    /\ sclock = 0
    /\ user_sessions = <<>>
    /\ sresp = Answer("none", 0)
    /\ logged_out = {}
    /\ feishu_client = NoClient
    /\ spc = "idle"
    /\ page_count = 0
    /\ page_token = PyNone
    /\ all_records = <<>>
    /\ max_pages = NoMaxPages
    /\ last_code = 0
    /\ opt_arg = PyNone
    /\ mgr_result = NotCalled
    /\ option = NoOption

\* ------------------------------------------------- threading.Timer objects

\* threading.Timer(at - now, self._refresh_token) is created and started; its
\* handle replaces self._refresh_timer, and the Timer that handle named is
\* left as it is.  `done` is the Timer thread that ends in this step (NoTimer
\* when a caller arms the Timer); an ended Timer's slot is reused.
ArmTimer(at, done) ==
    LET free == IF done = NoTimer THEN FreeTimers ELSE FreeTimers \cup {done}
        k == SetMin(free)
    IN
    /\ free # {}
    /\ tst' = [j \in TimerIds |->
                 IF j = k THEN "pending" ELSE IF j = done THEN "none" ELSE tst[j]]
    /\ tdl' = [j \in TimerIds |->
                 IF j = k THEN at ELSE IF j = done THEN 0 ELSE tdl[j]]
    /\ tatt' = [j \in TimerIds |-> IF j = done THEN 0 ELSE tatt[j]]
    /\ refresh_timer' = k

\* _schedule_refresh, reached with the lock held, after a credential expiring
\* at exp was stored: TRUE when a Timer is armed, FALSE when it calls
\* self._refresh_token() itself, which asks for the lock its thread holds.
SchedulesTimer(exp, t) == RefreshDelay(exp, t) > 0

\* ------------------------------------------------------------ get_token()

\* Another caller is inside _fetch_token.
OtherFetching(c) == \E d \in Callers \ {c} : cpc[d] = "fetch"

\* A thread calls get_token() and reaches "with self._lock".
CallGetToken(c) ==
    /\ cpc[c] = "idle"
    /\ cpc' = [cpc EXCEPT ![c] = "wait"]
    /\ cret' = [cret EXCEPT ![c] = NoToken]
    /\ cmiss' = [cmiss EXCEPT ![c] = NeedsFetch(token, expire_time, now)]
    /\ cqueued' = [cqueued EXCEPT ![c] =
                      NeedsFetch(token, expire_time, now) /\ OtherFetching(c)]
    /\ postStopCall' = (postStopCall \/ stopped)
    /\ UNCHANGED <<now, credVars, lock, timerVars, catt, reqCount, stopped>>
    /\ UNCHANGED otherVars

\* Mutant: the cached credential is returned without taking the lock.
GetTokenCached_NoLock(c) ==
    /\ cpc[c] = "wait"
    /\ ~NeedsFetch(token, expire_time, now)
    /\ cpc' = [cpc EXCEPT ![c] = "idle"]
    /\ cret' = [cret EXCEPT ![c] = token]
    /\ cmiss' = [cmiss EXCEPT ![c] = FALSE]
    /\ cqueued' = [cqueued EXCEPT ![c] = FALSE]
    /\ UNCHANGED <<now, credVars, lock, timerVars, catt, reqCount, stopped,
                   postStopCall>>
    /\ UNCHANGED otherVars

\* The caller gets the lock and finds the cached credential usable:
\* "return self._token", the lock is released at once.
GetTokenCached(c) ==
    /\ cpc[c] = "wait"
    /\ lock = FreeLock
    /\ ~NeedsFetch(token, expire_time, now)
    /\ cpc' = [cpc EXCEPT ![c] = "idle"]
    /\ cret' = [cret EXCEPT ![c] = token]
    /\ cmiss' = [cmiss EXCEPT ![c] = FALSE]
    /\ cqueued' = [cqueued EXCEPT ![c] = FALSE]
    /\ UNCHANGED <<now, credVars, lock, timerVars, catt, reqCount, stopped,
                   postStopCall>>
    /\ UNCHANGED otherVars

\* Mutant: the fetch starts without waiting for the lock.
GetTokenMiss_NoLock(c) ==
    /\ cpc[c] = "wait"
    /\ NeedsFetch(token, expire_time, now)
    /\ reqCount < MaxRequests
    /\ lock' = CallerThread(c)
    /\ cpc' = [cpc EXCEPT ![c] = "fetch"]
    /\ catt' = [catt EXCEPT ![c] = 0]
    /\ cmiss' = [cmiss EXCEPT ![c] = FALSE]
    /\ cqueued' = [d \in Callers |->
                     IF d = c THEN FALSE
                     ELSE cqueued[d] \/ (cpc[d] = "wait" /\ cmiss[d])]
    /\ UNCHANGED <<now, credVars, timerVars, cret, reqCount, stopped,
                   postStopCall>>
    /\ UNCHANGED otherVars

\* The caller gets the lock and must fetch: it enters _fetch_token's loop
\* and keeps the lock.
GetTokenMiss(c) ==
    /\ cpc[c] = "wait"
    /\ lock = FreeLock
    /\ NeedsFetch(token, expire_time, now)
    /\ reqCount < MaxRequests
    /\ lock' = CallerThread(c)
    /\ cpc' = [cpc EXCEPT ![c] = "fetch"]
    /\ catt' = [catt EXCEPT ![c] = 0]
    /\ cmiss' = [cmiss EXCEPT ![c] = FALSE]
    /\ cqueued' = [d \in Callers |->
                     IF d = c THEN FALSE
                     ELSE cqueued[d] \/ (cpc[d] = "wait" /\ cmiss[d])]
    /\ UNCHANGED <<now, credVars, timerVars, cret, reqCount, stopped,
                   postStopCall>>
    /\ UNCHANGED otherVars

\* requests.post answers code 0 with lifetime `life`: _fetch_token returns the
\* credential, get_token stores it and calls _schedule_refresh.
CallerFetchOk(c, life) ==
    /\ cpc[c] = "fetch"
    /\ reqCount' = reqCount + 1
    /\ token' = NewToken(token)
    /\ expire_time' = ExpireAt(now, life)
    /\ now' = now
    /\ catt' = [catt EXCEPT ![c] = 0]
    /\ IF SchedulesTimer(expire_time', now)
       THEN /\ ArmTimer(now + RefreshDelay(expire_time', now), NoTimer)
            /\ lock' = FreeLock
            /\ cpc' = [cpc EXCEPT ![c] = "idle"]
            /\ cret' = [cret EXCEPT ![c] = token']
       ELSE /\ cpc' = [cpc EXCEPT ![c] = "stuck"]
            /\ UNCHANGED <<lock, timerVars, cret>>
    /\ UNCHANGED <<cmiss, cqueued, stopped, postStopCall>>
    /\ UNCHANGED otherVars

\* Mutant: after a failed fetch get_token falls through to "return self._token".
CallerReturnCached(c, why) ==
    /\ lock' = FreeLock
    /\ cpc' = [cpc EXCEPT ![c] = "idle"]
    /\ cret' = [cret EXCEPT ![c] = token]
    /\ catt' = [catt EXCEPT ![c] = 0]
    /\ now' = now

\* The fetch ends without a credential: get_token returns None.
CallerReturnNone(c, why) ==
    /\ lock' = FreeLock
    /\ cpc' = [cpc EXCEPT ![c] = "idle"]
    /\ cret' = [cret EXCEPT ![c] = why]
    /\ catt' = [catt EXCEPT ![c] = 0]
    /\ now' = now

\* Mutant: a rejected request is tried again while attempts remain.
CallerFetchRejected_Retries(c, why) ==
    /\ cpc[c] = "fetch"
    /\ reqCount' = reqCount + 1
    /\ IF RetryAgain(catt[c])
       THEN /\ reqCount + 1 < MaxRequests
            /\ now' = now + RetrySleep(catt[c])
            /\ catt' = [catt EXCEPT ![c] = @ + 1]
            /\ cret' = [cret EXCEPT ![c] = why]
            /\ UNCHANGED <<lock, cpc>>
       ELSE CallerReturnNone(c, why)
    /\ UNCHANGED <<credVars, timerVars, cmiss, cqueued, stopped, postStopCall>>
    /\ UNCHANGED otherVars

\* The authority answers a code other than 0 (NoneCode), or handling the
\* answer raises an exception that is no RequestException (NoneOther): no
\* retry.
CallerFetchRejected(c, why) ==
    /\ cpc[c] = "fetch"
    /\ reqCount' = reqCount + 1
    /\ CallerReturnNone(c, why)
    /\ UNCHANGED <<credVars, timerVars, cmiss, cqueued, stopped, postStopCall>>
    /\ UNCHANGED otherVars

\* requests.post raises a RequestException: sleep and try again while
\* attempts remain, else give up.
CallerFetchRequestError(c) ==
    /\ cpc[c] = "fetch"
    /\ reqCount' = reqCount + 1
    /\ IF RetryAgain(catt[c])
       THEN /\ reqCount + 1 < MaxRequests
            /\ now' = now + RetrySleep(catt[c])
            /\ catt' = [catt EXCEPT ![c] = @ + 1]
            /\ UNCHANGED <<lock, cpc, cret>>
       ELSE CallerReturnNone(c, NoneRequest)
    /\ UNCHANGED <<credVars, timerVars, cmiss, cqueued, stopped, postStopCall>>
    /\ UNCHANGED otherVars

\* ------------------------------------------- _refresh_token() in a Timer

\* The Timer's delay has elapsed: its thread calls _refresh_token and reaches
\* "with self._lock".  cancel() no longer stops it.
TimerFire(k) ==
    /\ Pending(k)
    /\ now >= tdl[k]
    /\ tst' = [tst EXCEPT ![k] = "wait"]
    /\ tdl' = [tdl EXCEPT ![k] = 0]
    /\ refresh_timer' = IF refresh_timer = k THEN NoTimer ELSE refresh_timer
    /\ UNCHANGED <<now, credVars, lock, tatt, callerVars, reqCount, stopped,
                   postStopCall>>
    /\ UNCHANGED otherVars

\* _refresh_token gets the lock and enters _fetch_token's loop; it does not
\* look at the cached credential first.
RefreshStart(k) ==
    /\ tst[k] = "wait"
    /\ lock = FreeLock
    /\ reqCount < MaxRequests
    /\ lock' = TimerThread(k)
    /\ tst' = [tst EXCEPT ![k] = "fetch"]
    /\ tatt' = [tatt EXCEPT ![k] = 0]
    /\ UNCHANGED <<now, credVars, refresh_timer, tdl, callerVars, reqCount,
                   stopped, postStopCall>>
    /\ UNCHANGED otherVars

\* The renewal's request answers code 0: store the credential and call
\* _schedule_refresh.
RefreshOk(k, life) ==
    /\ tst[k] = "fetch"
    /\ reqCount' = reqCount + 1
    /\ token' = NewToken(token)
    /\ expire_time' = ExpireAt(now, life)
    /\ now' = now
    /\ IF SchedulesTimer(expire_time', now)
       THEN /\ ArmTimer(now + RefreshDelay(expire_time', now), k)
            /\ lock' = FreeLock
       ELSE /\ tst' = [tst EXCEPT ![k] = "stuck"]
            /\ tatt' = [tatt EXCEPT ![k] = 0]
            /\ UNCHANGED <<lock, refresh_timer, tdl>>
    /\ UNCHANGED <<callerVars, stopped, postStopCall>>
    /\ UNCHANGED otherVars

\* Mutant: a failed renewal drops the cached credential.
RefreshFailed_Clears(k) ==
    /\ ArmTimer(now + RetryInterval, k)
    /\ lock' = FreeLock
    /\ now' = now
    /\ token' = NoToken
    /\ expire_time' = NoTime

\* The renewal's fetch ends without a credential: "Token刷新失败", a Timer
\* retries after RetryInterval seconds; token and expiry stay as they are.
RefreshFailed(k) ==
    /\ ArmTimer(now + RetryInterval, k)
    /\ lock' = FreeLock
    /\ now' = now
    /\ UNCHANGED credVars

\* Code other than 0, or an exception that is no RequestException.
RefreshRejected(k) ==
    /\ tst[k] = "fetch"
    /\ reqCount' = reqCount + 1
    /\ RefreshFailed(k)
    /\ UNCHANGED <<callerVars, stopped, postStopCall>>
    /\ UNCHANGED otherVars

\* RequestException in the renewal's fetch.
RefreshRequestError(k) ==
    /\ tst[k] = "fetch"
    /\ reqCount' = reqCount + 1
    /\ IF RetryAgain(tatt[k])
       THEN /\ reqCount + 1 < MaxRequests
            /\ now' = now + RetrySleep(tatt[k])
            /\ tatt' = [tatt EXCEPT ![k] = @ + 1]
            /\ UNCHANGED <<credVars, lock, refresh_timer, tst, tdl>>
       ELSE RefreshFailed(k)
    /\ UNCHANGED <<callerVars, stopped, postStopCall>>
    /\ UNCHANGED otherVars

\* ------------------------------------- is_token_valid(), get_token_info()

\* What is_token_valid returns for token tok and expiry exp read at instant t.
IsTokenValid(tok, exp, t) == tok # NoToken /\ exp # NoTime /\ t < exp

\* What get_token_info returns: the dictionary's fields (expire_time stands
\* for its isoformat() text, remaining_seconds is max(0, int(remaining))).
GetTokenInfo(tok, exp, t) ==
    IF tok # NoToken /\ exp # NoTime
    THEN [token |-> tok, expire_time |-> exp,
          remaining_seconds |-> IF exp - t > 0 THEN exp - t ELSE 0,
          is_valid |-> exp - t > 0]
    ELSE [token |-> NoToken, expire_time |-> NoTime,
          remaining_seconds |-> 0, is_valid |-> FALSE]

\* What method m returns when it read tok, then exp, at instant t.
ReadResult(m, tok, exp, t) ==
    IF m = "is_token_valid"
    THEN [is_valid |-> IsTokenValid(tok, exp, t)]
    ELSE GetTokenInfo(tok, exp, t)

\* Mutant: the method reads the credential without taking the lock.
ReadStart_NoLock(m) ==
    /\ rpc = "idle"
    /\ rpc' = m
    /\ rtok' = token
    /\ UNCHANGED <<now, credVars, lock, timerVars, callerVars, reqCount, stopped,
                   postStopCall, pollVars>>

\* The reading thread calls method m, gets the lock ("with self._lock") and
\* reads self._token.  Its read of self._expire_time is a later step
\* (ReadReturn), so that a store by another thread between the two reads
\* would show; the two assignments of a store are one step of the thread
\* that holds the lock (CallerFetchOk, RefreshOk).
ReadStart(m) ==
    /\ rpc = "idle"
    /\ lock = FreeLock
    /\ lock' = ReaderThread
    /\ rpc' = m
    /\ rtok' = token
    /\ UNCHANGED <<now, credVars, timerVars, callerVars, reqCount, stopped,
                   postStopCall, pollVars>>

\* The method reads self._expire_time and datetime.now(), leaves the with
\* block and returns ReadResult(rpc, rtok, expire_time, now).
ReadReturn ==
    /\ rpc \in ReadMethods
    /\ rpc' = "idle"
    /\ rtok' = NoToken
    /\ lock' = IF lock = ReaderThread THEN FreeLock ELSE lock
    /\ UNCHANGED <<now, credVars, timerVars, callerVars, reqCount, stopped,
                   postStopCall, pollVars>>

\* ------------------------------------------------------------------ stop()

\* stop(): cancel() on the Timer self._refresh_timer holds; cancel() stops a
\* Timer only while it has not fired.  stop() does not take the lock.
Stop ==
    /\ stopped' = TRUE
    /\ IF refresh_timer # NoTimer
       THEN /\ tst' = [tst EXCEPT ![refresh_timer] = "none"]
            /\ tdl' = [tdl EXCEPT ![refresh_timer] = 0]
            /\ refresh_timer' = NoTimer
       ELSE UNCHANGED <<tst, tdl, refresh_timer>>
    /\ UNCHANGED <<now, credVars, lock, tatt, callerVars, reqCount,
                   postStopCall>>
    /\ UNCHANGED otherVars

\* ------------------------------------------------------------------- time

\* Some thread can take a step now.
Runnable ==
    \/ \E c \in Callers : cpc[c] = "fetch" \/ (cpc[c] = "wait" /\ lock = FreeLock)
    \/ \E k \in TimerIds : \/ tst[k] = "fetch"
                           \/ (tst[k] = "wait" /\ lock = FreeLock)
                           \/ (Pending(k) /\ tdl[k] <= now)
    \/ rpc \in ReadMethods

\* Mutant: the passing of time drops a credential that has expired.
Tick_Expires ==
    /\ ~Runnable
    /\ now < MaxTime
    /\ now' = SetMin({now + refresh_margin} \cup {tdl[k] : k \in PendingTimers})
    /\ IF expire_time # NoTime /\ now' >= expire_time
       THEN token' = NoToken /\ expire_time' = NoTime
       ELSE UNCHANGED credVars
    /\ UNCHANGED <<lock, timerVars, callerVars, reqCount, stopped, postStopCall>>
    /\ UNCHANGED otherVars

\* Time passes while no thread can run: to the next Timer's instant, and by
\* no more than the margin at once.
Tick ==
    /\ ~Runnable
    /\ now < MaxTime
    /\ now' = SetMin({now + refresh_margin} \cup {tdl[k] : k \in PendingTimers})
    /\ UNCHANGED <<credVars, lock, timerVars, callerVars, reqCount, stopped,
                   postStopCall>>
    /\ UNCHANGED otherVars

Next ==
    \/ \E c \in Callers : CallGetToken(c)
    \/ \E c \in Callers : GetTokenCached(c)
    \/ \E c \in Callers : GetTokenMiss(c)
    \/ \E c \in Callers, life \in Lifetimes : CallerFetchOk(c, life)
    \/ \E c \in Callers, why \in {NoneCode, NoneOther} : CallerFetchRejected(c, why)
    \/ \E c \in Callers : CallerFetchRequestError(c)
    \/ \E k \in TimerIds : TimerFire(k)
    \/ \E k \in TimerIds : RefreshStart(k)
    \/ \E k \in TimerIds, life \in Lifetimes : RefreshOk(k, life)
    \/ \E k \in TimerIds : RefreshRejected(k)
    \/ \E k \in TimerIds : RefreshRequestError(k)
    \/ Stop
    \/ Tick

Spec == Init /\ [][Next]_vars

\* The failure-free behaviours: every request is answered with code 0.
NextOk ==
    \/ \E c \in Callers : CallGetToken(c)
    \/ \E c \in Callers : GetTokenCached(c)
    \/ \E c \in Callers : GetTokenMiss(c)
    \/ \E c \in Callers, life \in Lifetimes : CallerFetchOk(c, life)
    \/ \E k \in TimerIds : TimerFire(k)
    \/ \E k \in TimerIds : RefreshStart(k)
    \/ \E k \in TimerIds, life \in Lifetimes : RefreshOk(k, life)
    \/ Stop
    \/ Tick

SpecOk == Init /\ [][NextOk]_vars

\* The behaviours with a thread that calls the reading methods.
NextRead ==
    \/ Next
    \/ \E m \in ReadMethods : ReadStart(m)
    \/ ReadReturn

SpecRead == Init /\ [][NextRead]_vars

\* ==================================================== the voice-log request

\* --------------------------------------- download_and_parse_transcription

WhiteSpace == {" ", "\n", "\t"}

RECURSIVE Concat(_)
\* ''.join(list)
Concat(list) == IF list = <<>> THEN <<>> ELSE Head(list) \o Concat(Tail(list))

RECURSIVE LStrip(_)
LStrip(s) ==
    IF s = <<>> THEN s
    ELSE IF Head(s) \in WhiteSpace THEN LStrip(Tail(s)) ELSE s

RECURSIVE RStrip(_)
RStrip(s) ==
    IF s = <<>> THEN s
    ELSE IF s[Len(s)] \in WhiteSpace THEN RStrip(SubSeq(s, 1, Len(s) - 1)) ELSE s

\* Mutant: only the end is stripped.
Strip_TrailingOnly(s) == RStrip(s)

\* str.strip()
Strip(s) == RStrip(LStrip(s))

RECURSIVE AllText(_)
\* The list all_text built by the loop over the paragraphs.
AllText(paras) ==
    IF paras = <<>> THEN <<>>
    ELSE LET words == Head(paras)
             para_text == Concat(words)
         IN  (IF words # <<>> /\ Strip(para_text) # <<>>
              THEN <<Strip(para_text)>> ELSE <<>>)
             \o AllText(Tail(paras))

RECURSIVE JoinLines(_)
\* '\n'.join(list)
JoinLines(list) ==
    IF list = <<>> THEN <<>>
    ELSE IF Len(list) = 1 THEN Head(list)
    ELSE Head(list) \o <<"\n">> \o JoinLines(Tail(list))

\* Mutant: the paragraphs are joined as they are.
DownloadAndParse_AsIs(art) ==
    IF art.ok
    THEN JoinLines([n \in 1..Len(art.Paragraphs) |-> Concat(art.Paragraphs[n])])
    ELSE ParseFailedText

\* download_and_parse_transcription: the text, or the fixed text of its
\* except branch.
DownloadAndParse(art) ==
    IF art.ok THEN JoinLines(AllText(art.Paragraphs)) ELSE ParseFailedText

\* ------------------------------------------------------- transcribe_audio

\* Mutant: the error code is left out.
FailedText_MessageOnly(resp) ==
    TaskFailedText \o <<":", " ">> \o Get(resp.ErrorMessage, UnknownErrorText)

\* The text returned for a FAILED job.
FailedText(resp) ==
    TaskFailedText \o <<":", " ", "[">> \o Get(resp.ErrorCode, <<>>)
        \o <<"]", " ">> \o Get(resp.ErrorMessage, UnknownErrorText)

\* "if transcription_url"
HasUrl(resp) == resp.Transcription.present /\ resp.Transcription.value # <<>>

\* POST /api/voice_log arrives: create_voice_log saves the file and calls
\* transcribe_audio.
CreateVoiceLog ==
    /\ tpc \in {"idle", "responded"}
    /\ tpc' = "upload"
    /\ poll_i' = 0
    /\ result' = QueryNone
    /\ artifact' = ArtifactError
    /\ text' = PyNone
    /\ outcome' = "none"
    /\ slept' = 0
    /\ uploads' = 0
    /\ submissions' = 0
    /\ queries' = 0
    /\ nonterm' = 0
    /\ downloads' = 0
    /\ summarised' = PyNone
    /\ logged' = PyNone
    /\ response' = 0
    /\ cancelled' = FALSE
    /\ UNCHANGED <<managerVars, readerVars, ossVars, appVars>>

\* transcribe_audio returns val from the return statement `why`.
Returns(val, why) ==
    /\ tpc' = "returned"
    /\ text' = val
    /\ outcome' = why

\* upload_file_to_oss returns the file's URL (ok) or None.
UploadFile(ok) ==
    /\ tpc = "upload"
    /\ uploads' = uploads + 1
    /\ IF ok
       THEN tpc' = "submit" /\ UNCHANGED <<text, outcome>>
       ELSE Returns(PyNone, "upload_failed")
    /\ UNCHANGED <<poll_i, result, artifact, slept, submissions, queries,
                   nonterm, downloads, summarised, logged, response>>
    /\ UNCHANGED <<managerVars, readerVars, cancelled, ossVars, appVars>>

\* Mutant: a failed submission is sent again.
SubmitTask_Retries(ok) ==
    /\ tpc = "submit"
    /\ submissions' = submissions + 1
    /\ submissions < 3
    /\ IF ok
       THEN tpc' = "poll" /\ UNCHANGED <<text, outcome>>
       ELSE UNCHANGED <<tpc, text, outcome>>
    /\ UNCHANGED <<poll_i, result, artifact, slept, uploads, queries, nonterm,
                   downloads, summarised, logged, response>>
    /\ UNCHANGED <<managerVars, readerVars, cancelled, ossVars, appVars>>

\* submit_transcription_task returns the task id (ok), or None.
SubmitTask(ok) ==
    /\ tpc = "submit"
    /\ submissions' = submissions + 1
    /\ IF ok
       THEN tpc' = "poll" /\ UNCHANGED <<text, outcome>>
       ELSE Returns(PyNone, "submit_failed")
    /\ UNCHANGED <<poll_i, result, artifact, slept, uploads, queries, nonterm,
                   downloads, summarised, logged, response>>
    /\ UNCHANGED <<managerVars, readerVars, cancelled, ossVars, appVars>>

\* The loop is at "result = get_task_result(task_id)".
Polling == tpc = "poll" /\ poll_i < poll_max_retries

\* Mutant: the status is asked twice in an iteration.
Query_Twice(resp) ==
    /\ Polling
    /\ queries' = queries + 2
    /\ result' = resp

\* get_task_result is called and answers resp.
Query(resp) ==
    /\ Polling
    /\ queries' = queries + 1
    /\ result' = resp

\* Mutant: the loop goes on without sleeping.
SleepAndContinue_NoSleep ==
    /\ slept' = slept
    /\ poll_i' = poll_i + 1
    /\ IF poll_i + 1 < poll_max_retries
       THEN tpc' = "poll" /\ UNCHANGED <<text, outcome>>
       ELSE Returns(PyStr(TimeoutText), "timeout")

\* time.sleep(retry_interval), then the next iteration; after the last one
\* the timeout text is returned.
SleepAndContinue ==
    /\ slept' = slept + retry_interval
    /\ poll_i' = poll_i + 1
    /\ IF poll_i + 1 < poll_max_retries
       THEN tpc' = "poll" /\ UNCHANGED <<text, outcome>>
       ELSE Returns(PyStr(TimeoutText), "timeout")

\* Mutant: a query that gives nothing ends the call.
QueryFailed_Aborts ==
    /\ Query(QueryNone)
    /\ Returns(PyNone, "exception")
    /\ UNCHANGED <<poll_i, slept, artifact, uploads, submissions, nonterm,
                   downloads, summarised, logged, response>>
    /\ UNCHANGED <<managerVars, readerVars, cancelled, ossVars, appVars>>

\* The query gives nothing: "else" of "if result".
QueryFailed ==
    /\ Query(QueryNone)
    /\ SleepAndContinue
    /\ UNCHANGED <<artifact, uploads, submissions, nonterm, downloads,
                   summarised, logged, response>>
    /\ UNCHANGED <<managerVars, readerVars, cancelled, ossVars, appVars>>

\* Mutant: a COMPLETED answer without a URL is polled again.
QueryCompleted_Repolls(resp, art) ==
    /\ resp.truthy /\ resp.TaskStatus = "COMPLETED"
    /\ Query(resp)
    /\ IF HasUrl(resp)
       THEN /\ downloads' = downloads + 1
            /\ artifact' = art
            /\ Returns(PyStr(DownloadAndParse(art)),
                       IF art.ok THEN "transcript" ELSE "parse_failed")
            /\ UNCHANGED <<poll_i, slept>>
       ELSE /\ art = ArtifactError
            /\ SleepAndContinue
            /\ UNCHANGED <<artifact, downloads>>
    /\ UNCHANGED <<uploads, submissions, nonterm, summarised, logged, response>>
    /\ UNCHANGED <<managerVars, readerVars, cancelled, ossVars, appVars>>

\* TaskStatus is COMPLETED: with a URL the result is downloaded and parsed,
\* without one the fixed text of line 388 is returned.
QueryCompleted(resp, art) ==
    /\ resp.truthy /\ resp.TaskStatus = "COMPLETED"
    /\ Query(resp)
    /\ IF HasUrl(resp)
       THEN /\ downloads' = downloads + 1
            /\ artifact' = art
            /\ Returns(PyStr(DownloadAndParse(art)),
                       IF art.ok THEN "transcript" ELSE "parse_failed")
       ELSE /\ art = ArtifactError
            /\ Returns(PyStr(ResultMissingText), "result_missing")
            /\ UNCHANGED <<artifact, downloads>>
    /\ UNCHANGED <<poll_i, slept, uploads, submissions, nonterm, summarised,
                   logged, response>>
    /\ UNCHANGED <<managerVars, readerVars, cancelled, ossVars, appVars>>

\* TaskStatus is FAILED.
QueryJobFailed(resp) ==
    /\ resp.truthy /\ resp.TaskStatus = "FAILED"
    /\ Query(resp)
    /\ Returns(PyStr(FailedText(resp)), "job_failed")
    /\ UNCHANGED <<poll_i, artifact, slept, uploads, submissions, nonterm,
                   downloads, summarised, logged, response>>
    /\ UNCHANGED <<managerVars, readerVars, cancelled, ossVars, appVars>>

\* Mutant: an INVALID job is polled again.
QueryInvalid_Retries(resp) ==
    /\ resp.truthy /\ resp.TaskStatus = "INVALID"
    /\ Query(resp)
    /\ SleepAndContinue
    /\ UNCHANGED <<artifact, uploads, submissions, nonterm, downloads,
                   summarised, logged, response>>
    /\ UNCHANGED <<managerVars, readerVars, cancelled, ossVars, appVars>>

\* TaskStatus is INVALID.
QueryInvalid(resp) ==
    /\ resp.truthy /\ resp.TaskStatus = "INVALID"
    /\ Query(resp)
    /\ Returns(PyStr(InvalidText), "job_invalid")
    /\ UNCHANGED <<poll_i, artifact, slept, uploads, submissions, nonterm,
                   downloads, summarised, logged, response>>
    /\ UNCHANGED <<managerVars, readerVars, cancelled, ossVars, appVars>>

\* TaskStatus is ONGOING.
QueryOngoing(resp) ==
    /\ resp.truthy /\ resp.TaskStatus = "ONGOING"
    /\ Query(resp)
    /\ nonterm' = nonterm + 1
    /\ SleepAndContinue
    /\ UNCHANGED <<artifact, uploads, submissions, downloads, summarised,
                   logged, response>>
    /\ UNCHANGED <<managerVars, readerVars, cancelled, ossVars, appVars>>

\* Mutant: an unknown status ends the call.
QueryUnknown_Fails(resp) ==
    /\ resp.truthy
    /\ resp.TaskStatus \notin {"COMPLETED", "FAILED", "INVALID", "ONGOING"}
    /\ Query(resp)
    /\ nonterm' = nonterm + 1
    /\ Returns(PyStr(InvalidText), "job_invalid")
    /\ UNCHANGED <<poll_i, artifact, slept, uploads, submissions, downloads,
                   summarised, logged, response>>
    /\ UNCHANGED <<managerVars, readerVars, cancelled, ossVars, appVars>>

\* TaskStatus is anything else, or absent: the final "else".
QueryUnknown(resp) ==
    /\ resp.truthy
    /\ resp.TaskStatus \notin {"COMPLETED", "FAILED", "INVALID", "ONGOING"}
    /\ Query(resp)
    /\ nonterm' = nonterm + 1
    /\ SleepAndContinue
    /\ UNCHANGED <<artifact, uploads, submissions, downloads, summarised,
                   logged, response>>
    /\ UNCHANGED <<managerVars, readerVars, cancelled, ossVars, appVars>>

\* ------------------------------------------------------- create_voice_log

\* "if not text": HTTPException(400) is raised inside the try block, caught
\* by "except Exception" and answered with status 500.
RespondNoText ==
    /\ tpc = "returned"
    /\ ~Truthy(text)
    /\ tpc' = "responded"
    /\ response' = 500
    /\ UNCHANGED <<poll_i, result, artifact, text, outcome, slept, uploads,
                   submissions, queries, nonterm, downloads, summarised, logged>>
    /\ UNCHANGED <<managerVars, readerVars, cancelled, ossVars, appVars>>

\* get_summary(text) is called; when it returns (ok) the text is written to
\* the log file log_<timestamp>.md, index and documents are loaded again and
\* the answer is 200; when it raises the answer is 500.
SummariseAndStore(ok) ==
    /\ tpc = "returned"
    /\ Truthy(text)
    /\ tpc' = "responded"
    /\ summarised' = text
    /\ logged' = IF ok THEN text ELSE logged
    /\ response' = IF ok THEN 200 ELSE 500
    /\ IF ok
       THEN \E stamp \in LogStamps :
               /\ log_dir' = log_dir \cup {LogFile(stamp)}
               /\ index' = LoadAndIndexLogs(log_dir')[1]
               /\ documents' = LoadAndIndexLogs(log_dir')[2]
       ELSE UNCHANGED <<log_dir, index, documents>>
    /\ UNCHANGED qresp
    /\ UNCHANGED <<poll_i, result, artifact, text, outcome, slept, uploads,
                   submissions, queries, nonterm, downloads>>
    /\ UNCHANGED <<managerVars, readerVars, cancelled, ossVars, sessionVars,
                   tableVars>>

NextPoll ==
    \/ CreateVoiceLog
    \/ \E ok \in BOOLEAN : UploadFile(ok)
    \/ \E ok \in BOOLEAN : SubmitTask(ok)
    \/ QueryFailed
    \/ \E resp \in Responses, art \in Artifacts : QueryCompleted(resp, art)
    \/ \E resp \in Responses : QueryJobFailed(resp)
    \/ \E resp \in Responses : QueryInvalid(resp)
    \/ \E resp \in Responses : QueryOngoing(resp)
    \/ \E resp \in Responses : QueryUnknown(resp)
    \/ RespondNoText
    \/ \E ok \in BOOLEAN : SummariseAndStore(ok)

SpecPoll == Init /\ [][NextPoll]_vars

\* The caller gives the request up while transcribe_audio is polling (the
\* client closes the connection).  transcribe_audio takes no cancellation
\* argument and create_voice_log awaits nothing while it runs: nothing in
\* the program reads this.
Cancel ==
    /\ tpc = "poll"
    /\ ~cancelled
    /\ cancelled' = TRUE
    /\ UNCHANGED <<tpc, poll_i, result, artifact, text, outcome, slept, uploads,
                   submissions, queries, nonterm, downloads, summarised, logged,
                   response>>
    /\ UNCHANGED <<managerVars, readerVars, ossVars, appVars>>

NextCancel ==
    \/ NextPoll
    \/ Cancel

\* The voice-log request with a caller that may give up.
SpecCancel == Init /\ [][NextCancel]_vars

\* ------------------------------------------------------------- /api/query

\* Somebody puts a .json file that json.load can read into LOG_DIR (the
\* program writes none).
JsonLogAppears(stamp) ==
    /\ <<stamp, "json">> \notin log_dir
    /\ log_dir' = log_dir \cup {<<stamp, "json">>}
    /\ UNCHANGED <<index, documents, qresp>>
    /\ UNCHANGED <<managerVars, readerVars, tpc, poll_i, result, artifact, text,
                   outcome, slept, uploads, submissions, queries, nonterm,
                   downloads, summarised, logged, response, cancelled, ossVars,
                   sessionVars, tableVars>>

\* What query_voice_logs answers with: 404 "if not index", else the answer
\* of query_logs.
QueryStatus == IF index = NoIndex THEN 404 ELSE 200

\* GET /api/query
QueryVoiceLogs ==
    /\ qresp' = QueryStatus
    /\ UNCHANGED <<log_dir, index, documents>>
    /\ UNCHANGED <<managerVars, readerVars, tpc, poll_i, result, artifact, text,
                   outcome, slept, uploads, submissions, queries, nonterm,
                   downloads, summarised, logged, response, cancelled, ossVars,
                   sessionVars, tableVars>>

NextLogs ==
    \/ NextPoll
    \/ \E stamp \in {0} : JsonLogAppears(stamp)
    \/ QueryVoiceLogs

\* The voice-log requests together with /api/query.
SpecLogs == Init /\ [][NextLogs]_vars

\* ------------------------------- download_and_parse_transcription, alone

\* The sequences over S of length at most n.
SeqsUpTo(S, n) == UNION {[1..m -> S] : m \in 0..n}

\* The result file whose paragraphs are ["He","llo"] and [" ","World"].
HelloWorld ==
    Artifact(<< << <<"H", "e">>, <<"l", "l", "o">> >>,
                << <<" ">>, <<"W", "o", "r", "l", "d">> >> >>)

\* The result files given to download_and_parse_transcription.
ParseInputs ==
    {ArtifactError, HelloWorld}
    \cup {Artifact(ps) :
            ps \in SeqsUpTo(SeqsUpTo({<<" ">>, <<"a">>, <<"b", "\n">>}, MaxWords),
                            MaxParas)}

\* transcribe_audio is at line 385, the result file is any of ParseInputs.
InitParse ==
    /\ now = 0
    /\ token = NoToken
    /\ expire_time = NoTime
    /\ lock = FreeLock
    /\ refresh_timer = NoTimer
    /\ tst = [k \in TimerIds |-> "none"]
    /\ tdl = [k \in TimerIds |-> 0]
    /\ tatt = [k \in TimerIds |-> 0]
    /\ cpc = [c \in Callers |-> "idle"]
    /\ catt = [c \in Callers |-> 0]
    /\ cret = [c \in Callers |-> NoToken]
    /\ cmiss = [c \in Callers |-> FALSE]
    /\ cqueued = [c \in Callers |-> FALSE]
    /\ reqCount = 0
    /\ stopped = FALSE
    /\ postStopCall = FALSE
    /\ rpc = "idle"
    /\ rtok = NoToken
    /\ tpc = "download"
    /\ poll_i = 0
    /\ result = QueryNone
    /\ artifact \in ParseInputs
    /\ text = PyNone
    /\ outcome = "none"
    /\ slept = 0
    /\ uploads = 0
    /\ submissions = 0
    /\ queries = 0
    /\ nonterm = 0
    /\ downloads = 0
    /\ summarised = PyNone
    /\ logged = PyNone
    /\ response = 0
    /\ cancelled = FALSE
    /\ oss_clock = 0
    /\ bucket = {}
    /\ puts = [f \in Files |-> 0]
    /\ file_url = NoUrl
    /\ log_dir = {}
    /\ index = LoadAndIndexLogs({})[1]
    /\ documents = LoadAndIndexLogs({})[2]
    /\ qresp = 0
    /\ sclock = 0
    /\ user_sessions = <<>>
    /\ sresp = Answer("none", 0)
    /\ logged_out = {}
    /\ feishu_client = NoClient
    /\ spc = "idle"
    /\ page_count = 0
    /\ page_token = PyNone
    /\ all_records = <<>>
    /\ max_pages = NoMaxPages
    /\ last_code = 0
    /\ opt_arg = PyNone
    /\ mgr_result = NotCalled
    /\ option = NoOption

\* return download_and_parse_transcription(transcription_url)
ParseResult ==
    /\ tpc = "download"
    /\ downloads' = downloads + 1
    /\ Returns(PyStr(DownloadAndParse(artifact)),
               IF artifact.ok THEN "transcript" ELSE "parse_failed")
    /\ UNCHANGED <<poll_i, result, artifact, slept, uploads, submissions,
                   queries, nonterm, summarised, logged, response>>
    /\ UNCHANGED <<managerVars, readerVars, cancelled, ossVars, appVars>>

NextParse ==
    \/ ParseResult
    \/ RespondNoText
    \/ \E ok \in BOOLEAN : SummariseAndStore(ok)

SpecParse == InitParse /\ [][NextParse]_vars

\* ------------------------------------------------------ upload_file_to_oss

\* What upload_file_to_oss leaves alone.
notOssVars ==
    <<managerVars, readerVars, tpc, poll_i, result, artifact, text, outcome,
      slept, uploads, submissions, queries, nonterm, downloads, summarised,
      logged, response, cancelled, appVars>>

\* object_name = f'audio/{timestamp}_{file_name}', the timestamp being the
\* second of datetime.now().
ObjectName(timestamp, file_name) == <<timestamp, file_name>>

\* bucket.sign_url('GET', object_name, 24 * 3600)
SignUrl(object_name) == <<object_name>>

\* check_file_exists_in_oss: True when get_object_meta answers, False when
\* the object is missing and when the request fails (meta_ok = FALSE).
CheckFileExists(object_name, meta_ok) == meta_ok /\ object_name \in bucket

\* upload_file_to_oss, a configuration variable is missing: None.
UploadEnvMissing(f) ==
    /\ file_url' = NoUrl
    /\ UNCHANGED <<oss_clock, bucket, puts>>
    /\ UNCHANGED notOssVars

\* upload_file_to_oss, the object exists: its URL, nothing is put.
UploadFound(f, meta_ok) ==
    /\ CheckFileExists(ObjectName(oss_clock, f), meta_ok)
    /\ file_url' = SignUrl(ObjectName(oss_clock, f))
    /\ UNCHANGED <<oss_clock, bucket, puts>>
    /\ UNCHANGED notOssVars

\* upload_file_to_oss, the object was not found: put_object, then its URL.
UploadPut(f, meta_ok) ==
    /\ ~CheckFileExists(ObjectName(oss_clock, f), meta_ok)
    /\ puts[f] < MaxPuts
    /\ bucket' = bucket \cup {ObjectName(oss_clock, f)}
    /\ puts' = [puts EXCEPT ![f] = @ + 1]
    /\ file_url' = SignUrl(ObjectName(oss_clock, f))
    /\ UNCHANGED oss_clock
    /\ UNCHANGED notOssVars

\* upload_file_to_oss, the object was not found and put_object raises: None.
UploadPutFails(f, meta_ok) ==
    /\ ~CheckFileExists(ObjectName(oss_clock, f), meta_ok)
    /\ file_url' = NoUrl
    /\ UNCHANGED <<oss_clock, bucket, puts>>
    /\ UNCHANGED notOssVars

\* A second passes.
OssTick ==
    /\ oss_clock < MaxClock
    /\ oss_clock' = oss_clock + 1
    /\ UNCHANGED <<bucket, puts, file_url>>
    /\ UNCHANGED notOssVars

NextUpload ==
    \/ \E f \in Files : UploadEnvMissing(f)
    \/ \E f \in Files, meta_ok \in BOOLEAN : UploadFound(f, meta_ok)
    \/ \E f \in Files, meta_ok \in BOOLEAN : UploadPut(f, meta_ok)
    \/ \E f \in Files, meta_ok \in BOOLEAN : UploadPutFails(f, meta_ok)
    \/ OssTick

SpecUpload == Init /\ [][NextUpload]_vars

\* ------------------------------------------------------- the user sessions

\* Resolution of the clock: datetime.now() has fractions of a second, a
\* session id has none.
TicksPerSecond == 2

\* timedelta(hours=24), in ticks
SessionLifetime == session_hours * 3600 * TicksPerSecond

\* The instants at which requests arrive: two in one second, one in the
\* next, and the same a day later.
SessionTimes ==
    {0, 1, 2, SessionLifetime, SessionLifetime + 1, SessionLifetime + 2}

\* session_id = f"session_{int(datetime.now().timestamp())}": int() drops
\* the fraction of the second.
SessionId(t) == <<"session", t \div TicksPerSecond>>

\* The tokens and session ids clients send: the ids logins give, and one
\* that no login gives.
JunkToken == <<"junk", 0>>
Tokens == {SessionId(t) : t \in SessionTimes} \cup {JunkToken}

\* str.lower() of the scheme
Lower(scheme) ==
    IF scheme = "Bearer" THEN "bearer"
    ELSE IF scheme = "Basic" THEN "basic"
    ELSE scheme

\* The Authorization header: missing, not two words, or scheme and token.
NoHeader == [kind |-> "none", scheme |-> "", token |-> JunkToken]
OneWord == [kind |-> "one_word", scheme |-> "", token |-> JunkToken]
Header(scheme, tok) == [kind |-> "pair", scheme |-> scheme, token |-> tok]
Headers ==
    {NoHeader, OneWord}
    \cup {Header(sch, tok) : sch \in {"Bearer", "bearer", "Basic"}, tok \in Tokens}

\* datetime.now() - datetime.fromisoformat(session.login_time) >
\* timedelta(hours=24)
Expired(session) == sclock - session.login_time > SessionLifetime

\* get_current_user: 200 when it returns the session, 401 when it raises.
CurrentUserStatus(h) ==
    IF h.kind = "none" THEN 401
    ELSE IF h.kind # "pair" THEN 401
    ELSE IF Lower(h.scheme) # "bearer" THEN 401
    ELSE IF h.token \notin DOMAIN user_sessions THEN 401
    ELSE IF Expired(user_sessions[h.token]) THEN 401
    ELSE 200

\* The dict without key id: del user_sessions[id]
Del(sessions, id) == [k \in DOMAIN sessions \ {id} |-> sessions[k]]

\* The dict with sessions[id] = session
Put(sessions, id, session) ==
    [k \in DOMAIN sessions \cup {id} |-> IF k = id THEN session ELSE sessions[k]]

\* A request with dependency get_current_user arrives with header h: the
\* session is returned or 401 is raised; an expired session is deleted.
GetCurrentUser(h) ==
    /\ sresp' = Answer("get_current_user", CurrentUserStatus(h))
    /\ user_sessions' =
          IF /\ h.kind = "pair"
             /\ Lower(h.scheme) = "bearer"
             /\ h.token \in DOMAIN user_sessions
             /\ Expired(user_sessions[h.token])
          THEN Del(user_sessions, h.token)
          ELSE user_sessions
    /\ UNCHANGED <<sclock, logged_out>>
    /\ UNCHANGED <<managerVars, readerVars, tpc, poll_i, result, artifact, text,
                   outcome, slept, uploads, submissions, queries, nonterm,
                   downloads, summarised, logged, response, cancelled, ossVars,
                   logVars, tableVars>>

\* POST /api/login: authenticate_user returns the user's record ("ok"), None
\* ("denied") or raises ("error").
Login(u, auth) ==
    /\ IF auth = "ok"
       THEN /\ user_sessions' = Put(user_sessions, SessionId(sclock),
                                    [username |-> u, login_time |-> sclock])
            /\ sresp' = Answer("login", 200)
       ELSE /\ UNCHANGED user_sessions
            /\ sresp' = Answer("login", IF auth = "denied" THEN 401 ELSE 500)
    /\ UNCHANGED <<sclock, logged_out>>
    /\ UNCHANGED <<managerVars, readerVars, tpc, poll_i, result, artifact, text,
                   outcome, slept, uploads, submissions, queries, nonterm,
                   downloads, summarised, logged, response, cancelled, ossVars,
                   logVars, tableVars>>

\* POST /api/logout
Logout(id) ==
    /\ IF id \in DOMAIN user_sessions
       THEN /\ user_sessions' = Del(user_sessions, id)
            /\ sresp' = Answer("logout", 200)
            /\ logged_out' = logged_out \cup {id}
       ELSE /\ sresp' = Answer("logout", 401)
            /\ UNCHANGED <<user_sessions, logged_out>>
    /\ UNCHANGED sclock
    /\ UNCHANGED <<managerVars, readerVars, tpc, poll_i, result, artifact, text,
                   outcome, slept, uploads, submissions, queries, nonterm,
                   downloads, summarised, logged, response, cancelled, ossVars,
                   logVars, tableVars>>

\* What get_user_info answers with for session id `id`.
UserInfoStatus(id) == IF id \in DOMAIN user_sessions THEN 200 ELSE 401

\* GET /api/user/info
GetUserInfo(id) ==
    /\ sresp' = Answer("get_user_info", UserInfoStatus(id))
    /\ UNCHANGED <<sclock, user_sessions, logged_out>>
    /\ UNCHANGED <<managerVars, readerVars, tpc, poll_i, result, artifact, text,
                   outcome, slept, uploads, submissions, queries, nonterm,
                   downloads, summarised, logged, response, cancelled, ossVars,
                   logVars, tableVars>>

\* Time passes, to a later one of the instants.
SessionTick(t) ==
    /\ t > sclock
    /\ sclock' = t
    /\ UNCHANGED <<user_sessions, sresp, logged_out>>
    /\ UNCHANGED <<managerVars, readerVars, tpc, poll_i, result, artifact, text,
                   outcome, slept, uploads, submissions, queries, nonterm,
                   downloads, summarised, logged, response, cancelled, ossVars,
                   logVars, tableVars>>

NextSession ==
    \/ \E h \in Headers : GetCurrentUser(h)
    \/ \E u \in {"u1", "u2"}, auth \in {"ok", "denied", "error"} : Login(u, auth)
    \/ \E id \in Tokens : Logout(id)
    \/ \E id \in Tokens : GetUserInfo(id)
    \/ \E t \in SessionTimes : SessionTick(t)

SpecSession == Init /\ [][NextSession]_vars

\* ---------------------------------------------------- FeishuBitableClient

\* access_token or os.getenv("FEISHU_ACCESS_TOKEN"): none, empty, of the
\* tenant kind ("t-...") or of the user kind.
StaticTokens ==
    {PyNone, PyStr(<<>>), PyStr(<<"t", "-", "s">>), PyStr(<<"u", "-", "s">>)}

\* The token argument of _build_request_option.
PassedTokens == {PyNone, PyStr(<<>>), PyStr(<<"u", "-", "p">>)}

\* Outcomes of get_current_token(): the manager's get_token() returns a
\* token or None, or raises.
ManagerResults == {ManagerToken(<<"t", "-", "m">>), ManagerNone, ManagerRaises}

\* response.code of failed answers: rate limit, token invalid, token
\* expired.
RateLimited == 429
TokenInvalid == 99991663
TokenExpired == 99991664

\* token.startswith("t-")
StartsWithT(tok) == Len(tok) >= 2 /\ tok[1] = "t" /\ tok[2] = "-"

\* Mutant: the static token is preferred to the manager's.
BuildRequestOption_StaticFirst(client, arg, mgr) ==
    LET chosen == IF Truthy(arg) THEN arg
                  ELSE IF Truthy(client.access_token) THEN client.access_token
                  ELSE IF client.auto_token_refresh /\ mgr.kind = "token"
                       THEN PyStr(mgr.token)
                       ELSE PyNone
    IN  IF ~Truthy(chosen) THEN Option("none", <<>>)
        ELSE IF StartsWithT(chosen.str) THEN Option("tenant", chosen.str)
        ELSE Option("user", chosen.str)

\* _build_request_option(token): `mgr` is what get_current_token() does if
\* it is called.
BuildRequestOption(client, arg, mgr) ==
    LET token1 == IF ~Truthy(arg) /\ client.auto_token_refresh
                  THEN IF mgr.kind = "token" THEN PyStr(mgr.token)
                       ELSE IF mgr.kind = "none" THEN PyNone
                       ELSE arg
                  ELSE arg
        token2 == IF ~Truthy(token1) THEN client.access_token ELSE token1
    IN  IF ~Truthy(token2) THEN Option("none", <<>>)
        ELSE IF StartsWithT(token2.str) THEN Option("tenant", token2.str)
        ELSE Option("user", token2.str)

\* A call of _build_request_option(arg) and what it leaves.
BuildsOption(arg, mgr) ==
    /\ opt_arg' = arg
    /\ mgr_result' = IF ~Truthy(arg) /\ feishu_client.auto_token_refresh
                     THEN mgr ELSE NotCalled
    /\ option' = BuildRequestOption(feishu_client, arg, mgr)

\* What the session and log endpoints and the rest leave alone is left
\* alone by the client too.
notTableVars ==
    <<managerVars, readerVars, tpc, poll_i, result, artifact, text, outcome,
      slept, uploads, submissions, queries, nonterm, downloads, summarised,
      logged, response, cancelled, ossVars, logVars, sessionVars>>

\* get_feishu_client() builds the client: FeishuBitableClient.__init__ with
\* the static token `static`; auto_token_refresh stays on only when the
\* application's id and secret are set and the token manager is there
\* (creds = "present"), not when they are missing or init_token_manager
\* raises.
InitClient(static, creds) ==
    /\ ~feishu_client.built
    /\ feishu_client' = [built |-> TRUE, access_token |-> static,
                         auto_token_refresh |-> (creds = "present")]
    /\ UNCHANGED <<searchVars, optionVars>>
    /\ UNCHANGED notTableVars

\* _build_request_option(token) is called with a token (create_records and
\* other callers).
CallBuildRequestOption(arg, mgr) ==
    /\ feishu_client.built
    /\ spc # "sleeping"
    /\ BuildsOption(arg, mgr)
    /\ UNCHANGED <<feishu_client, searchVars>>
    /\ UNCHANGED notTableVars

\* search_records(max_pages = n) is called.
CallSearchRecords(n) ==
    /\ feishu_client.built
    /\ spc \in {"idle", "returned", "raised"}
    /\ spc' = "request"
    /\ page_count' = 0
    /\ page_token' = PyNone
    /\ all_records' = <<>>
    /\ max_pages' = n
    /\ last_code' = 0
    /\ UNCHANGED <<feishu_client, optionVars>>
    /\ UNCHANGED notTableVars

\* One request of the loop is answered with a page: its items are added,
\* and the loop ends when there is no next page ("if not page_token") or
\* max_pages is reached ("if max_pages and page_count >= max_pages").
SearchPage(items, next, mgr) ==
    /\ spc = "request"
    /\ page_count < MaxPages
    /\ Truthy(next) => page_count + 1 < MaxPages
    /\ BuildsOption(PyNone, mgr)
    /\ last_code' = 0
    /\ all_records' = all_records \o items
    /\ page_count' = page_count + 1
    /\ page_token' = next
    /\ spc' = IF \/ ~Truthy(next)
                 \/ /\ max_pages # NoMaxPages
                    /\ max_pages # 0
                    /\ page_count + 1 >= max_pages
              THEN "returned" ELSE "request"
    /\ UNCHANGED <<feishu_client, max_pages>>
    /\ UNCHANGED notTableVars

\* The request is answered 429: time.sleep(sleep_on_rate_limit), continue.
SearchRateLimited(mgr) ==
    /\ spc = "request"
    /\ BuildsOption(PyNone, mgr)
    /\ last_code' = RateLimited
    /\ spc' = "sleeping"
    /\ UNCHANGED <<feishu_client, page_count, page_token, all_records, max_pages>>
    /\ UNCHANGED notTableVars

\* The sleep is over: the same page is asked for again.
SearchWake ==
    /\ spc = "sleeping"
    /\ spc' = "request"
    /\ UNCHANGED <<feishu_client, page_count, page_token, all_records, max_pages,
                   last_code, optionVars>>
    /\ UNCHANGED notTableVars

\* The request is answered with a token error: "if self.oauth_handler"
\* reads an attribute the client does not have, AttributeError leaves
\* search_records.
SearchTokenError(code, mgr) ==
    /\ spc = "request"
    /\ BuildsOption(PyNone, mgr)
    /\ last_code' = code
    /\ spc' = "raised"
    /\ UNCHANGED <<feishu_client, page_count, page_token, all_records, max_pages>>
    /\ UNCHANGED notTableVars

\* The request fails with another code (1254000 stands for all of them):
\* break, return all_records.
SearchFailed(mgr) ==
    /\ spc = "request"
    /\ BuildsOption(PyNone, mgr)
    /\ last_code' = 1254000
    /\ spc' = "returned"
    /\ UNCHANGED <<feishu_client, page_count, page_token, all_records, max_pages>>
    /\ UNCHANGED notTableVars

\* The steps of a running search_records call.
SearchStep ==
    \/ \E items \in {<<>>, <<"r">>}, next \in {PyNone, PyStr(<<"p">>)},
          mgr \in ManagerResults : SearchPage(items, next, mgr)
    \/ \E mgr \in ManagerResults : SearchRateLimited(mgr)
    \/ SearchWake
    \/ \E code \in {TokenInvalid, TokenExpired}, mgr \in ManagerResults : SearchTokenError(code, mgr)
    \/ \E mgr \in ManagerResults : SearchFailed(mgr)

NextTable ==
    \/ \E static \in StaticTokens, creds \in {"present", "missing", "raises"} :
          InitClient(static, creds)
    \/ \E arg \in PassedTokens, mgr \in ManagerResults :
          CallBuildRequestOption(arg, mgr)
    \/ \E n \in {NoMaxPages, 0, 1, 2} : CallSearchRecords(n)
    \/ SearchStep

SpecTable == Init /\ [][NextTable]_vars

\* The thread inside search_records keeps running and every request is
\* answered; which answer the server gives is not constrained.
SpecTableFair == SpecTable /\ WF_vars(SearchStep)

\* ================================================================ claims

\* The cached credential has more than the renewal margin left.
Fresh ==
    /\ token # NoToken
    /\ expire_time # NoTime
    /\ expire_time - now > refresh_margin

\* The threads inside a fetch (or blocked inside one).
Fetchers ==
    {CallerThread(c) : c \in {d \in Callers : cpc[d] \in {"fetch", "stuck"}}}
    \cup {TimerThread(k) : k \in {j \in TimerIds : tst[j] \in {"fetch", "stuck"}}}

\* In this step caller c gets the lock.
Acquires(c) == cpc[c] = "wait" /\ cpc'[c] # "wait"

\* In this step caller c's get_token() returns after a fetch.
ReturnsFromFetch(c) == cpc[c] = "fetch" /\ cpc'[c] = "idle"

\* In this step a credential is stored.
Stores == token' # token

C2_AtMostOnePending ==
    Cardinality({k \in PendingTimers : tdl[k] > now}) <= 1

\* C3 (as claimed): a fetch that stores a credential whose renewal time is
\* not in the future is followed at once by a renewal fetch: the storing
\* thread is inside a renewal fetch after the step.
C3_RenewsImmediately ==
    [][(Stores /\ expire_time' - refresh_margin <= now') =>
          \/ \E c \in Callers : cpc'[c] = "fetch"
          \/ \E k \in TimerIds : tst'[k] = "fetch"]_vars

\* C4 (as claimed): once stop() has returned, and no get_token() call has
\* started since, no renewal Timer is pending and no Timer thread is at work.
C4_QuietAfterStop ==
    (stopped /\ ~postStopCall) =>
        \A k \in TimerIds : tst[k] \notin {"pending", "wait", "fetch"}

\* C5: every token get_token() returns is the cached credential's, and that
\* credential's expiry is in the future at the moment of return.
C5_NeverExpired ==
    [][\A c \in Callers :
         (cpc[c] # "idle" /\ cpc'[c] = "idle" /\ cret'[c] \notin NoneKinds) =>
            /\ cret'[c] # NoToken
            /\ cret'[c] = token'
            /\ expire_time' # NoTime
            /\ expire_time' > now']_vars

C5_Witness ==
    \E c \in Callers : cpc[c] = "idle" /\ cret[c] = token /\ token # NoToken
                       /\ now > 0

\* C6: a get_token() call that finds the cached credential more than the
\* margin from expiry returns the cached token, sends no request and leaves
\* the credential as it is.
C6_CachedNoFetch ==
    [][\A c \in Callers : (Acquires(c) /\ Fresh) =>
            /\ cpc'[c] = "idle"
            /\ cret'[c] = token
            /\ reqCount' = reqCount
            /\ token' = token /\ expire_time' = expire_time]_vars

C6_Witness ==
    \E c \in Callers : cpc[c] = "wait" /\ ~cmiss[c] /\ lock = FreeLock /\ Fresh

\* C7 (as claimed): a get_token() call that found the cached credential
\* within the margin returns the newly fetched token.
C7_ReturnsNewToken ==
    [][\A c \in Callers : (ReturnsFromFetch(c) /\ token # NoToken) =>
            cret'[c] = token' /\ token' # token]_vars

\* C7 (amended): a get_token() call that finds the cached credential within
\* the margin enters one synchronous fetch of at most max_retries requests;
\* when it returns, it returns the newly fetched token if the fetch succeeded
\* and no token if it failed, never the token that was cached.
C7_FetchThenNewOrNone ==
    /\ [](\A c \in Callers : catt[c] <= max_retries - 1)
    /\ [][\A c \in Callers :
            /\ (Acquires(c) /\ token # NoToken /\ ~Fresh) =>
                  cpc'[c] = "fetch" /\ lock' = CallerThread(c)
            /\ (ReturnsFromFetch(c) /\ token # NoToken) =>
                  /\ reqCount' = reqCount + 1
                  /\ \/ cret'[c] = token' /\ token' # token
                     \/ cret'[c] \in NoneKinds /\ token' = token]_vars

\* Two requests were sent, both by get_token() calls that stored a credential
\* (each left a Timer pending), the second one while the first credential was
\* cached; a caller holds the second token.
C7_Witness ==
    /\ reqCount = 2 /\ token = 2
    /\ Cardinality(PendingTimers) = 2
    /\ \E c \in Callers : cpc[c] = "idle" /\ cret[c] = 2

\* C8 (as claimed): get_token() reports the credential unavailable only
\* after max_retries attempts.
C8_NoneOnlyAfterAllAttempts ==
    [][\A c \in Callers :
         (ReturnsFromFetch(c) /\ cret'[c] \in NoneKinds) =>
            catt[c] = max_retries - 1]_vars

\* C8 (amended): while the request keeps failing with a request error,
\* get_token() makes max_retries attempts in total, sleeping 1 s after the
\* first and 2 s after the second, never a further one, and only then
\* returns no token; an answer with another code, or another exception, ends
\* the fetch at its attempt without a retry.
C8_RetriesRequestErrors ==
    /\ [](\A c \in Callers : catt[c] <= max_retries - 1)
    /\ [][\A c \in Callers :
            /\ (cpc[c] = "fetch" /\ cpc'[c] = "fetch" /\ reqCount' # reqCount) =>
                  /\ reqCount' = reqCount + 1
                  /\ catt'[c] = catt[c] + 1
                  /\ now' - now = IF catt[c] = 0 THEN 1 ELSE 2
            /\ (ReturnsFromFetch(c) /\ cret'[c] = NoneRequest) =>
                  catt[c] = max_retries - 1
            /\ (ReturnsFromFetch(c) /\ cret'[c] \in {NoneCode, NoneOther}) =>
                  token' = token /\ now' = now]_vars

C8_Witness ==
    \E c \in Callers : cpc[c] = "idle" /\ cret[c] = NoneRequest

\* In this step a Timer thread's renewal ends without a new credential.
RenewalFails ==
    /\ lock \in {TimerThread(k) : k \in TimerIds}
    /\ lock' = FreeLock
    /\ token' # NewToken(token)

\* C9: a failed background renewal leaves token and expiry unchanged and arms
\* a Timer RetryInterval seconds later; a get_token() call that then finds
\* the credential more than the margin from expiry still returns it.
C9_FailedRenewalKeeps ==
    [][/\ RenewalFails =>
            /\ token' = token /\ expire_time' = expire_time
            /\ refresh_timer' # NoTimer
            /\ tst'[refresh_timer'] = "pending"
            /\ tdl'[refresh_timer'] = now' + 300
       /\ \A c \in Callers : (Acquires(c) /\ Fresh) => cret'[c] = token]_vars

C9_Witness ==
    /\ token # NoToken
    /\ refresh_timer # NoTimer
    /\ tdl[refresh_timer] = now + RetryInterval
    /\ tdl[refresh_timer] # expire_time - refresh_margin
    /\ lock = FreeLock

\* No thread is blocked on the lock it holds.
NoneStuck ==
    /\ \A c \in Callers : cpc[c] # "stuck"
    /\ \A k \in TimerIds : tst[k] # "stuck"

\* C10: a fetch that stores a credential with more than the margin to live
\* arms a Timer for expiry minus the margin; while the manager is not stopped
\* and requests succeed, that renewal is pending or at work, and the cached
\* credential is renewed before it expires.
C10_RenewedBeforeExpiry ==
    /\ [][(Stores /\ expire_time' - now' > refresh_margin) =>
             /\ refresh_timer' # NoTimer
             /\ tst'[refresh_timer'] = "pending"
             /\ tdl'[refresh_timer'] = expire_time' - 300]_vars
    /\ []((token # NoToken /\ ~stopped /\ NoneStuck) =>
             /\ now < expire_time
             /\ \/ \E k \in TimerIds :
                      Pending(k) /\ tdl[k] = expire_time - 300
                \/ \E k \in TimerIds : tst[k] \in {"wait", "fetch"})

C10_Witness ==
    /\ ~stopped
    /\ \A c \in Callers : cpc[c] = "idle"
    /\ \E k \in TimerIds : tst[k] = "fetch"
    /\ token # NoToken
    /\ now < expire_time

\* Some thread is inside _fetch_token and holds the lock.
FetcherHoldsLock ==
    \/ \E c \in Callers : cpc[c] = "fetch" /\ lock = CallerThread(c)
    \/ \E k \in TimerIds : tst[k] = "fetch" /\ lock = TimerThread(k)

\* C11: the cached token and its expiry change only in the step in which a
\* fetch succeeds, and then both are replaced by the new credential's; steps
\* in which the clock advances, a get_token() fetch fails, is_token_valid or
\* get_token_info starts or returns, or stop() runs leave both as they are.
C11_OnlySuccessfulFetchStores ==
    [][/\ (token' # token \/ expire_time' # expire_time) =>
            /\ FetcherHoldsLock
            /\ reqCount' = reqCount + 1
            /\ now' = now
            /\ token' \notin {token, NoToken}
            /\ \E life \in Lifetimes : expire_time' = now + life
       /\ (now' # now) => UNCHANGED credVars
       /\ (\E c \in Callers : ReturnsFromFetch(c) /\ cret'[c] \in NoneKinds) =>
            UNCHANGED credVars
       /\ (rpc' # rpc) => UNCHANGED credVars
       /\ (stopped' # stopped) => UNCHANGED credVars]_vars

\* A second credential replaced the first, stop() has run, the clock has
\* passed the cached credential's expiry and a reading method is at work.
C11_Witness ==
    /\ token = 2
    /\ stopped
    /\ now >= expire_time
    /\ rpc \in ReadMethods

\* C12: a reading method is inside its "with self._lock" block only while it
\* holds the lock, a credential is stored only by the thread that holds the
\* lock, and what the method returns is computed from a token and an expiry
\* that are cached together: the token it read is still the cached one when
\* it reads the expiry.
C12_NoHalfWrittenRead ==
    /\ [](rpc \in ReadMethods => lock = ReaderThread /\ rtok = token)
    /\ [][/\ Stores => (FetcherHoldsLock /\ rpc = "idle")
          /\ (rpc \in ReadMethods /\ rpc' = "idle") =>
                /\ UNCHANGED credVars
                /\ ReadResult(rpc, rtok, expire_time, now)
                      = ReadResult(rpc, token, expire_time, now)]_vars

\* A reading method holds the lock while a renewal's Timer thread waits for
\* it, with a credential cached.
C12_Witness ==
    /\ rpc \in ReadMethods
    /\ lock = ReaderThread
    /\ token # NoToken
    /\ \E k \in TimerIds : tst[k] = "wait"

\* C13 (as claimed): when get_token()'s fetch has failed on all max_retries
\* attempts, the call returns no token and no credential is cached any more.
C13_FailedFetchClears ==
    [][\A c \in Callers :
         (ReturnsFromFetch(c) /\ catt[c] = max_retries - 1
              /\ cret'[c] = NoneRequest) =>
            token' = NoToken /\ expire_time' = NoTime]_vars

\* ---------------------------------------------------- the voice-log request

\* transcribe_audio has returned.
Returned == tpc \in {"returned", "responded"}

\* In this step a status query is answered.
Queried == queries' = queries + 1

\* In this step a status query is answered with status st.
Answered(st) == Queried /\ result'.truthy /\ result'.TaskStatus = st

\* C14: when transcribe_audio returns a transcript, the last query was
\* answered COMPLETED with a URL, the result was downloaded once and the text
\* returned is the parsed result; when the queries before it returned k
\* non-terminal results (none of them failed), exactly k+1 queries were made,
\* at most 30; and no query is made after the COMPLETED one.
C14_TranscriptAfterKPlusOne ==
    /\ [](outcome = "transcript" =>
            /\ Returned
            /\ result.truthy /\ result.TaskStatus = "COMPLETED"
            /\ result.Transcription.present
            /\ downloads = 1
            /\ artifact.ok
            /\ text = [isNone |-> FALSE,
                       str |-> JoinLines(AllText(artifact.Paragraphs))]
            /\ (artifact.Paragraphs
                    = << << <<"a">>, <<"b">> >>, << <<" ">>, <<"c">> >> >>
                  => text.str = <<"a", "b", "\n", "c">>)
            /\ queries = poll_i + 1
            /\ queries <= 30
            /\ (nonterm = poll_i => queries = nonterm + 1))
    /\ [][(Answered("COMPLETED") /\ result'.Transcription.present
              /\ result'.Transcription.value # <<>>) =>
            /\ tpc' = "returned"
            /\ outcome' \in {"transcript", "parse_failed"}
            /\ downloads' = downloads + 1
            /\ outcome' = "transcript" <=> artifact'.ok]_vars
    /\ [][(outcome = "transcript" /\ outcome' = "transcript") =>
            queries' = queries]_vars

\* [ONGOING, ONGOING, COMPLETED]: three queries, the text of the result whose
\* paragraphs are ["a","b"] and [" ","c"].
C14_Witness ==
    /\ outcome = "transcript"
    /\ queries = 3
    /\ nonterm = 2
    /\ text.str = <<"a", "b", "\n", "c">>
    /\ tpc = "responded"

\* C15: never more than 30 status queries are made; before each query the
\* call has slept 10 s for every query made so far; a 30th query that brings
\* no terminal status ends the call with the timeout text, and the timeout
\* text is returned only then.
C15_ThirtyQueriesThenTimeout ==
    /\ [](/\ queries <= 30
          /\ (tpc = "poll" => (queries = poll_i /\ queries < 30
                                 /\ slept = 10 * queries))
          /\ (outcome = "timeout" =>
                /\ Returned
                /\ queries = 30
                /\ slept = 300
                /\ downloads = 0
                /\ text = [isNone |-> FALSE, str |-> <<"TaskTimeout">>]))
    /\ [][/\ (Queried /\ tpc' = "poll") => slept' = slept + 10
          /\ (Queried /\ queries' = 30
                /\ (~result'.truthy
                       \/ result'.TaskStatus
                             \notin {"COMPLETED", "FAILED", "INVALID"})) =>
                outcome' = "timeout"
          /\ (Returned /\ tpc' # "upload") => queries' = queries]_vars

C15_Witness ==
    /\ outcome = "timeout"
    /\ queries = 30
    /\ nonterm = 30
    /\ tpc = "returned"

\* C16: a query answered FAILED with ErrorCode X and ErrorMessage Y ends the
\* polling at once, without a sleep, and the text returned holds X between
\* "[" and "] " and ends with Y, both as sent.
C16_FailedCarriesCodeAndMessage ==
    [][(Answered("FAILED") /\ result'.ErrorCode.present
           /\ result'.ErrorMessage.present) =>
          /\ tpc' = "returned"
          /\ outcome' = "job_failed"
          /\ slept' = slept
          /\ poll_i' = poll_i
          /\ ~text'.isNone
          /\ text'.str = <<"TaskFailed", ":", " ", "[">>
                            \o result'.ErrorCode.value
                            \o <<"]", " ">>
                            \o result'.ErrorMessage.value]_vars

C16_Witness ==
    /\ outcome = "job_failed"
    /\ queries = 2
    /\ result.ErrorCode = Field(<<"E", "]", " ">>)
    /\ result.ErrorMessage = Field(<<"n", "o">>)

\* C17 (as claimed): whenever transcribe_audio returned from a failure,
\* create_voice_log neither passes what it returned to get_summary nor writes
\* it to the log.
C17_FailureNeverStored ==
    (Returned /\ outcome # "transcript") =>
        /\ summarised.isNone
        /\ logged.isNone

\* C18: a query answered COMPLETED without a result URL ends the call at
\* once with the text of line 388: no download, no sleep, no further query.
C18_ResultMissingAtOnce ==
    /\ [][(Answered("COMPLETED")
             /\ result'.Transcription \in {Absent, Field(<<>>)}) =>
            /\ tpc' = "returned"
            /\ outcome' = "result_missing"
            /\ text' = [isNone |-> FALSE, str |-> <<"NoResultUrl">>]
            /\ downloads' = downloads
            /\ slept' = slept
            /\ poll_i' = poll_i]_vars
    /\ [](outcome = "result_missing" =>
            Returned /\ downloads = 0 /\ queries = poll_i + 1)
    /\ [][(outcome = "result_missing" /\ outcome' = "result_missing") =>
            queries' = queries /\ downloads' = downloads]_vars

C18_Witness ==
    /\ outcome = "result_missing"
    /\ result.TaskStatus = "COMPLETED"
    /\ result.Transcription = Absent
    /\ queries = 2
    /\ tpc = "responded"

\* C19: a query answered INVALID, COMPLETED or FAILED is the call's last: it
\* returns in that step without a sleep, and once it has returned no query is
\* made and no sleep taken; INVALID returns the text of line 398.
C19_StopsAtFirstTerminal ==
    /\ [][\A st \in {"INVALID", "COMPLETED", "FAILED"} : Answered(st) =>
            /\ tpc' = "returned"
            /\ slept' = slept
            /\ poll_i' = poll_i
            /\ (st = "INVALID" =>
                  /\ outcome' = "job_invalid"
                  /\ text' = [isNone |-> FALSE, str |-> <<"TaskInvalid">>])]_vars
    /\ [][(Returned /\ tpc' # "upload") =>
            queries' = queries /\ slept' = slept]_vars
    /\ [](outcome = "job_invalid" =>
            Returned /\ result.TaskStatus = "INVALID" /\ queries = poll_i + 1)

C19_Witness ==
    /\ outcome = "job_invalid"
    /\ queries = 3
    /\ slept = 20
    /\ tpc = "responded"

\* C20: a query answered with a status other than COMPLETED, FAILED and
\* INVALID (ONGOING, PENDING, an unknown one, none) is followed by a sleep of
\* 10 s; while fewer than 30 queries have been made the call is then at the
\* next query, and after the 30th it returns the timeout text.
C20_NonTerminalPollsAgain ==
    [][(Queried /\ result'.truthy
           /\ result'.TaskStatus \notin {"COMPLETED", "FAILED", "INVALID"}) =>
          /\ slept' = slept + 10
          /\ poll_i' = poll_i + 1
          /\ nonterm' = nonterm + 1
          /\ (queries' < 30 =>
                tpc' = "poll" /\ poll_i' < 30 /\ outcome' = "none"
                    /\ text' = text)
          /\ (queries' >= 30 => outcome' = "timeout")]_vars

C20_Witness ==
    /\ tpc = "poll"
    /\ queries = 2
    /\ nonterm = 2
    /\ result.truthy
    /\ result.TaskStatus = NoStatus

\* C21: a status query that gives nothing (get_task_result returns None) is
\* followed by a sleep of 10 s and counts as one of the 30 iterations; while
\* fewer than 30 queries have been made the call is then at the next query,
\* and only after the 30th it returns, with the timeout text; a COMPLETED
\* answer with a URL that comes after failed queries still returns the parsed
\* result.
C21_FailedQueryPollsAgain ==
    /\ [][(Queried /\ ~result'.truthy) =>
            /\ slept' = slept + 10
            /\ poll_i' = poll_i + 1
            /\ nonterm' = nonterm
            /\ downloads' = downloads
            /\ (queries' < 30 =>
                  tpc' = "poll" /\ poll_i' < 30 /\ outcome' = "none"
                      /\ text' = text)
            /\ (queries' >= 30 => outcome' = "timeout")]_vars
    /\ [][(Answered("COMPLETED") /\ result'.Transcription.present
              /\ result'.Transcription.value # <<>> /\ artifact'.ok
              /\ queries > nonterm) =>
            /\ outcome' = "transcript"
            /\ text' = [isNone |-> FALSE,
                        str |-> JoinLines(AllText(artifact'.Paragraphs))]]_vars
    /\ [](outcome = "timeout" => queries = 30)

\* Two failed queries, then COMPLETED: the transcript is returned.
C21_Witness ==
    /\ outcome = "transcript"
    /\ queries = 3
    /\ nonterm = 0
    /\ slept = 20
    /\ text.str = <<"H", "i">>

\* C22 (as claimed): once the caller has cancelled during polling, the call
\* returns within one sleep interval: a status query answered after the
\* cancellation (one that was under way) is the call's last, it is not
\* followed by another sleep and another query.
C22_CancelStopsPolling ==
    [][(cancelled /\ Queried) => (tpc' = "returned" /\ slept' = slept)]_vars

\* C23: a transcription call submits the job at most once; when
\* submit_transcription_task gives no task id the call returns None in that
\* step, and it has made no status query then or later.
C23_SingleSubmission ==
    /\ [](/\ submissions <= 1
          /\ (queries > 0 => submissions = 1)
          /\ (outcome = "submit_failed" =>
                /\ Returned
                /\ text.isNone
                /\ submissions = 1
                /\ queries = 0
                /\ slept = 0))
    /\ [][(submissions' = submissions + 1 /\ tpc' # "poll") =>
            (tpc' = "returned" /\ outcome' = "submit_failed")]_vars

C23_Witness ==
    /\ outcome = "submit_failed"
    /\ submissions = 1
    /\ uploads = 1
    /\ tpc = "responded"
    /\ response = 500

\* ------------------------------------------------------------- the parser

\* s without its leading and trailing whitespace.
Trimmed(s) ==
    LET keep == {n \in 1..Len(s) : s[n] \notin {" ", "\n", "\t"}}
    IN  IF keep = {} THEN <<>>
        ELSE SubSeq(s, CHOOSE n \in keep : \A o \in keep : n <= o,
                       CHOOSE n \in keep : \A o \in keep : n >= o)

RECURSIVE Glued(_)
\* The word fragments ws put one after the other, nothing between them.
Glued(ws) ==
    IF ws = <<>> THEN <<>>
    ELSE Glued(SubSeq(ws, 1, Len(ws) - 1)) \o ws[Len(ws)]

\* The trimmed paragraphs that are not empty, in their order.
Surviving(paras) ==
    SelectSeq([n \in 1..Len(paras) |-> Trimmed(Glued(paras[n]))],
              LAMBDA p : p # <<>>)

RECURSIVE NewlineJoined(_)
\* The texts ls with one newline between neighbours.
NewlineJoined(ls) ==
    IF ls = <<>> THEN <<>>
    ELSE IF Len(ls) = 1 THEN ls[1]
    ELSE NewlineJoined(SubSeq(ls, 1, Len(ls) - 1)) \o <<"\n">> \o ls[Len(ls)]

\* C24: for every result file that is downloaded and parsed, the text
\* returned is: each paragraph's word fragments put together with nothing
\* between them and trimmed of leading and trailing whitespace, the
\* paragraphs that are empty after that left out, the others joined in their
\* order with one newline between neighbours.
C24_ParsedTranscript ==
    (Returned /\ artifact.ok) =>
        /\ outcome = "transcript"
        /\ ~text.isNone
        /\ text.str = NewlineJoined(Surviving(artifact.Paragraphs))

\* [" ","a"] is trimmed, [" "] is dropped.
C24_Witness ==
    /\ Returned
    /\ artifact.ok
    /\ artifact.Paragraphs = << << <<" ">>, <<"a">> >>, << <<" ">> >> >>
    /\ text.str = <<"a">>

\* C25 (as claimed): parsing the result file with paragraphs ["He","llo"] and
\* [" ","World"] gives "Hello\n World".
C25_HelloSpaceWorld ==
    (Returned /\ artifact = HelloWorld) =>
        text.str = <<"H", "e", "l", "l", "o", "\n", " ", "W", "o", "r", "l", "d">>

\* C25 (amended): parsing the result file with paragraphs ["He","llo"] and
\* [" ","World"] gives "Hello\nWorld": the fragments are joined without a
\* separator, the paragraphs with a newline, and the second paragraph's
\* leading space is trimmed.
C25_HelloWorld ==
    (Returned /\ artifact = HelloWorld) =>
        text.str = <<"H", "e", "l", "l", "o", "\n", "W", "o", "r", "l", "d">>

C25_Witness ==
    /\ tpc = "responded"
    /\ artifact = HelloWorld
    /\ outcome = "transcript"
    /\ logged = text

\* ------------------------------------------------------------- the upload

\* C26: a local file that has been put into the bucket is not put a second
\* time when it is uploaded again: the existence check finds the object of
\* the first upload (a put after an existence check that failed with an
\* error is not counted).
C26_SecondUploadPutsNothing ==
    [][\A f \in Files :
          (puts[f] >= 1 /\ puts'[f] # puts[f]) =>
              ObjectName(oss_clock, f) \in bucket]_vars

\* --------------------------------------------------- the lock, once more

\* C27: no reachable state has a thread that waits for ever on the manager's
\* lock: no thread is blocked on the lock it holds itself, and no thread
\* waits for a lock whose holder is blocked for ever, whatever lifetime the
\* authority answers.
C27_NoThreadWaitsForever ==
    /\ NoneStuck
    /\ \A c \in Callers :
          cpc[c] = "wait" => lock \notin {TimerThread(k) : k \in
                                           {j \in TimerIds : tst[j] = "stuck"}}
                                     \cup {CallerThread(d) : d \in
                                           {e \in Callers : cpc[e] = "stuck"}}

\* C28: a fetch starts, in get_token() or in a background renewal, only when
\* no credential is cached or the cached one is within the renewal margin: a
\* credential with more than the margin left is never fetched again.
C28_NoRedundantFetch ==
    [][(\/ \E c \in Callers : cpc[c] # "fetch" /\ cpc'[c] = "fetch"
        \/ \E k \in TimerIds : tst[k] # "fetch" /\ tst'[k] = "fetch")
          => ~Fresh]_vars

\* C29: the lock is held for the whole of a fetch, its retry sleeps
\* included, in get_token() and in a background renewal: a thread inside a
\* fetch holds the lock, a retry sleep keeps it, and while a fetch is under
\* way no get_token() call of another thread returns and no is_token_valid
\* or get_token_info call starts to read or returns, even when the cached
\* credential is still valid.
C29_LockHeldThroughFetch ==
    /\ [](/\ \A c \in Callers : cpc[c] = "fetch" => lock = CallerThread(c)
          /\ \A k \in TimerIds : tst[k] = "fetch" => lock = TimerThread(k))
    /\ [][FetcherHoldsLock =>
             /\ now' > now => lock' = lock
             /\ \A c \in Callers : ~(cpc[c] = "wait" /\ cpc'[c] = "idle")
             /\ rpc' = rpc]_vars

\* A renewal is in its second attempt, after a retry sleep, while a
\* get_token() call waits and the cached credential has not expired.
C29_Witness ==
    /\ \E k \in TimerIds :
          tst[k] = "fetch" /\ tatt[k] > 0 /\ lock = TimerThread(k)
    /\ \E c \in Callers : cpc[c] = "wait"
    /\ token # NoToken
    /\ now < expire_time

\* C30: an answer whose code is not 0 ends the fetch at that request, with
\* attempts left or not: no sleep and no further request of that fetch, the
\* cached token and expiry stay as they were, the lock is released and the
\* get_token() call returns None (cret is NoneCode, no token).
C30_RejectedNotRetried ==
    [][\A c \in Callers :
          (cpc[c] = "fetch" /\ cret'[c] = NoneCode) =>
              /\ cpc'[c] = "idle"
              /\ reqCount' = reqCount + 1
              /\ now' = now
              /\ lock' = FreeLock
              /\ UNCHANGED credVars]_vars

\* A credential is cached, the first request of the next fetching
\* get_token() call was rejected, and the call has returned None.
C30_Witness ==
    \E c \in Callers :
        /\ cpc[c] = "idle"
        /\ cret[c] = NoneCode
        /\ reqCount = 2
        /\ token # NoToken

\* ------------------------------------------------------------ the endpoints

\* C31 (as claimed): whenever transcribe_audio returned no text (None or the
\* empty string), create_voice_log answers with status 400.
C31_NoTextAnswers400 ==
    (tpc = "responded" /\ ~Truthy(text)) => response = 400

\* C32 (as claimed): once create_voice_log has answered 200, the log it wrote
\* is among the documents loaded again, and /api/query does not answer 404.
C32_WrittenLogIsSearched ==
    (tpc = "responded" /\ response = 200) =>
        /\ \E stamp \in LogStamps : LogFile(stamp) \in documents
        /\ QueryStatus # 404

\* ------------------------------------------------------------ the sessions

\* C33 (as claimed, its last part): a session id that /api/logout has ended
\* is rejected by get_current_user with 401 at every later request.
C33_LoggedOutStaysRejected ==
    \A id \in logged_out : CurrentUserStatus(Header("Bearer", id)) = 401

\* C34 (as claimed): get_user_info reports a session as logged in only if
\* get_current_user accepts the same session id at that moment.
C34_ExpiryUniform ==
    \A id \in Tokens :
        UserInfoStatus(id) = 200 => CurrentUserStatus(Header("Bearer", id)) = 200

\* C35 (as claimed): a successful login never overwrites the session entry of
\* another user.
C35_LoginNeverOverwrites ==
    [][\A id \in DOMAIN user_sessions \cap DOMAIN user_sessions' :
           user_sessions'[id].username = user_sessions[id].username]_vars

\* ------------------------------------------------------------ the table store

\* C36 (as claimed): a request of search_records answered "token expired"
\* (99991664) is sent again for the same page; a request that fails with a
\* code that is neither that nor the rate limit ends the paging, and
\* search_records returns the records it has, without raising.
C36_ExpiredTokenRetried ==
    [][(spc = "request" /\ last_code' # 0 /\ last_code' # RateLimited) =>
          IF last_code' = TokenExpired
          THEN /\ spc' = "request"
               /\ page_token' = page_token
               /\ page_count' = page_count
          ELSE /\ spc' = "returned"
               /\ all_records' = all_records]_vars

\* C37 (as claimed): every call of search_records ends, whatever the server
\* answers, rate-limit answers included.
C37_SearchTerminates ==
    (spc \in {"request", "sleeping"}) ~> (spc \in {"returned", "raised"})

\* C38: the token of a request option is the token passed, when one is
\* passed; else, with auto refresh on, the token get_current_token()
\* returns; else (auto refresh off, or the manager returns none or raises)
\* the client's static access token; the option is built without a token
\* only when none of the three is there.  The manager is asked only when no
\* token is passed and auto refresh is on.
C38_TokenPriority ==
    option.kind # "unbuilt" =>
        /\ feishu_client.built
        /\ mgr_result.kind # "not_called" <=>
              (opt_arg \in {PyNone, PyStr(<<>>)}
               /\ feishu_client.auto_token_refresh)
        /\ CASE opt_arg \notin {PyNone, PyStr(<<>>)} ->
                  option.token = opt_arg.str
             [] opt_arg \in {PyNone, PyStr(<<>>)} /\ mgr_result.kind = "token" ->
                  option.token = mgr_result.token
             [] OTHER ->
                  IF feishu_client.access_token \in {PyNone, PyStr(<<>>)}
                  THEN option.kind = "none"
                  ELSE option.token = feishu_client.access_token.str
        /\ option.kind = "none" <=> option.token = <<>>

\* No token was passed, the manager gave its token, and it was used although
\* the client has a static token.
C38_Witness ==
    /\ option = Option("tenant", <<"t", "-", "m">>)
    /\ opt_arg = PyNone
    /\ feishu_client.auto_token_refresh
    /\ feishu_client.access_token = PyStr(<<"u", "-", "s">>)
    /\ mgr_result = ManagerToken(<<"t", "-", "m">>)

====
